---- MODULE Spec2Model ----
(***************************************************************************)
(* Women Safety Analytics backend: the in-memory user directory            *)
(* (data/users.js), the SOS alert route (routes/sos.js), the dashboard     *)
(* socket set (server.js) and the crime dataset loader (utils/csvParser.js)*)
(* as state machines.                                                      *)
(*                                                                         *)
(* Numbers.  Coordinates are fixed-point integers in units of 0.0001       *)
(* degree (40.7580 is 407580).  Distances are metres.  Time is counted in  *)
(* units of six hours, the period of the cleanup timer.                    *)
(*                                                                         *)
(* JavaScript values are records [t, n, s]: t is the type tag, n the       *)
(* numeric payload, s the characters of a string.                          *)
(***************************************************************************)
EXTENDS Integers, Sequences, FiniteSets, TLC

VARIABLES
    users,        \* data/users.js `users`: the Map, as its entries in insertion order
    now,          \* the wall clock read by new Date()
    timerDue,     \* the setInterval callback of data/users.js is waiting to run
    sockets,      \* server.js `dashboardSockets`
    emits,        \* per socket: 'sos-alert' events emitted by the latest request
    call,         \* the latest operation and its arguments
    ret,          \* what the latest operation returned / responded
    upserted,     \* the arguments of the addUser calls of the end-to-end scenario so far
    crimeData,    \* utils/csvParser.js `crimeData`
    isDataLoaded, \* utils/csvParser.js `isDataLoaded`
    csvFile,      \* the rows of data/crime-data.csv (<<>> with fileExists = FALSE: no file)
    fileExists,   \* fs.existsSync(csvPath)
    loads,        \* the loadCrimeData() calls in flight: their stream position and `results`
    sources,      \* per loadCrimeData() call so far: the rows its stream was opened on
    seen,         \* what the latest reader call observed
    server        \* server.js: "starting", "loading" (awaiting the initial load), "listening", "exited"

dirVars  == <<users, now, timerDue, sockets, emits, call, ret, upserted>>
dataVars == <<crimeData, isDataLoaded, csvFile, fileExists, loads, sources, seen>>
vars     == <<users, now, timerDue, sockets, emits, call, ret, upserted,
              crimeData, isDataLoaded, csvFile, fileExists, loads, sources, seen,
              server>>

----------------------------------------------------------------------------
(* JavaScript values                                                        *)

Undefined == [t |-> "undefined", n |-> 0, s |-> <<>>]
NaN       == [t |-> "NaN", n |-> 0, s |-> <<>>]
Num(x)    == [t |-> "number", n |-> x, s |-> <<>>]
Str(cs)   == [t |-> "string", n |-> 0, s |-> cs]
\* the string new Date(x).toISOString() of the instant x
Iso(x)    == [t |-> "isodate", n |-> x, s |-> <<>>]

\* ToBoolean: undefined, 0, NaN and "" are falsy
Truthy(v) ==
    CASE v.t = "undefined" -> FALSE
      [] v.t = "NaN"       -> FALSE
      [] v.t = "number"    -> v.n # 0
      [] v.t = "string"    -> v.s # <<>>
      [] OTHER             -> TRUE

isNaN(v) == v.t = "NaN"

Digits == {"0", "1", "2", "3", "4", "5", "6", "7", "8", "9"}

DigitVal(c) ==
    CASE c = "0" -> 0 [] c = "1" -> 1 [] c = "2" -> 2 [] c = "3" -> 3
      [] c = "4" -> 4 [] c = "5" -> 5 [] c = "6" -> 6 [] c = "7" -> 7
      [] c = "8" -> 8 [] c = "9" -> 9

RECURSIVE SkipSpace(_)
SkipSpace(cs) ==
    IF cs # <<>> /\ Head(cs) = " " THEN SkipSpace(Tail(cs)) ELSE cs

\* the longest prefix of cs made of digits
RECURSIVE DigitRun(_)
DigitRun(cs) ==
    IF cs # <<>> /\ Head(cs) \in Digits
    THEN <<Head(cs)>> \o DigitRun(Tail(cs))
    ELSE <<>>

RECURSIVE DigitsValue(_, _)
DigitsValue(ds, acc) ==
    IF ds = <<>> THEN acc ELSE DigitsValue(Tail(ds), 10 * acc + DigitVal(Head(ds)))

\* a fraction's digits as ten-thousandths: the first four digits, padded with zeros
FractionValue(ds) ==
    LET d(i) == IF i <= Len(ds) THEN DigitVal(ds[i]) ELSE 0
    IN  1000 * d(1) + 100 * d(2) + 10 * d(3) + d(4)

\* parseFloat of a string: leading white space, an optional sign, the longest
\* decimal literal; NaN when no digit starts it.  Trailing characters are ignored.
ParseFloatString(cs) ==
    LET body  == SkipSpace(cs)
        neg   == body # <<>> /\ Head(body) = "-"
        sgn   == body # <<>> /\ Head(body) \in {"-", "+"}
        rest  == IF sgn THEN Tail(body) ELSE body
        ip    == DigitRun(rest)
        after == SubSeq(rest, Len(ip) + 1, Len(rest))
        dot   == after # <<>> /\ Head(after) = "."
        fp    == IF dot THEN DigitRun(Tail(after)) ELSE <<>>
        mag   == 10000 * DigitsValue(ip, 0) + FractionValue(fp)
    IN  IF ip = <<>> /\ fp = <<>> THEN NaN
        ELSE Num(IF neg THEN 0 - mag ELSE mag)

\* parseFloat(v): a number converts to its own value, undefined to NaN
parseFloat(v) ==
    CASE v.t = "number" -> v
      [] v.t = "string" -> ParseFloatString(v.s)
      [] OTHER          -> NaN

\* new Date(v).getTime(): an ISO string gives its instant, any other string is
\* an Invalid Date (NaN)
DateOf(v) ==
    CASE v.t = "isodate" -> Num(v.n)
      [] v.t = "number"  -> v
      [] OTHER           -> NaN

----------------------------------------------------------------------------
(* utils/haversine.js                                                       *)

\* EARTH_RADIUS * c of calculateDistance at the points of the model, in
\* centimetres (the double truncated): the haversine formula evaluated in IEEE
\* double arithmetic for each ordered pair <<lat1, lng1, lat2, lng2>>.
\* -1 stands for NaN: between (-82, -90) and (82, 90), which are antipodes, the
\* sum `a` comes out as 1.0000000000000002, Math.sqrt(1 - a) is NaN and so are
\* c and the distance.
HaversineCm ==
    (  <<407580, -739855, 407580, -739855>> :> 0
    @@ <<407580, -739855, 407520, -739860>> :> 66849
    @@ <<407580, -739855, 407560, -739870>> :> 25577
    @@ <<407580, -739855, 0, -739855>> :> 453208282
    @@ <<407580, -739855, 2000000, -739855>> :> 1770690250
    @@ <<407580, -739855, 407128, -740060>> :> 531452
    @@ <<407580, -739855, 0, 0>> :> 866629506
    @@ <<407580, -739855, 0, 10>> :> 866637785
    @@ <<407580, -739855, 100000, 100000>> :> 877971063
    @@ <<407580, -739855, -820000, -900000>> :> 1368110944
    @@ <<407580, -739855, 820000, 900000>> :> 633397734
    @@ <<407580, -739855, 900000, 0>> :> 547546057
    @@ <<407580, -739855, 407580, 0>> :> 603016719
    @@ <<407520, -739860, 407580, -739855>> :> 66849
    @@ <<407520, -739860, 407520, -739860>> :> 0
    @@ <<407520, -739860, 407560, -739870>> :> 45268
    @@ <<407520, -739860, 0, -739855>> :> 453141565
    @@ <<407520, -739860, 2000000, -739855>> :> 1770756967
    @@ <<407520, -739860, 407128, -740060>> :> 467326
    @@ <<407520, -739860, 0, 0>> :> 866621359
    @@ <<407520, -739860, 0, 10>> :> 866629638
    @@ <<407520, -739860, 100000, 100000>> :> 877979628
    @@ <<407520, -739860, -820000, -900000>> :> 1368044105
    @@ <<407520, -739860, 820000, 900000>> :> 633464574
    @@ <<407520, -739860, 900000, 0>> :> 547612774
    @@ <<407520, -739860, 407580, 0>> :> 603049946
    @@ <<407560, -739870, 407580, -739855>> :> 25577
    @@ <<407560, -739870, 407520, -739860>> :> 45268
    @@ <<407560, -739870, 407560, -739870>> :> 0
    @@ <<407560, -739870, 0, -739855>> :> 453186043
    @@ <<407560, -739870, 2000000, -739855>> :> 1770712489
    @@ <<407560, -739870, 407128, -740060>> :> 506335
    @@ <<407560, -739870, 0, 0>> :> 866637829
    @@ <<407560, -739870, 0, 10>> :> 866646108
    @@ <<407560, -739870, 100000, 100000>> :> 877985125
    @@ <<407560, -739870, -820000, -900000>> :> 1368088150
    @@ <<407560, -739870, 820000, 900000>> :> 633420528
    @@ <<407560, -739870, 900000, 0>> :> 547568296
    @@ <<407560, -739870, 407580, 0>> :> 603037872
    @@ <<0, -739855, 407580, -739855>> :> 453208282
    @@ <<0, -739855, 407520, -739860>> :> 453141565
    @@ <<0, -739855, 407560, -739870>> :> 453186043
    @@ <<0, -739855, 0, -739855>> :> 0
    @@ <<0, -739855, 2000000, -739855>> :> 1779118826
    @@ <<0, -739855, 407128, -740060>> :> 452705728
    @@ <<0, -739855, 0, 0>> :> 822681224
    @@ <<0, -739855, 0, 10>> :> 822692344
    @@ <<0, -739855, 100000, 100000>> :> 934895844
    @@ <<0, -739855, -820000, -900000>> :> 915271905
    @@ <<0, -739855, 820000, 900000>> :> 1086236773
    @@ <<0, -739855, 900000, 0>> :> 1000754339
    @@ <<0, -739855, 407580, 0>> :> 866629506
    @@ <<2000000, -739855, 407580, -739855>> :> 1770690250
    @@ <<2000000, -739855, 407520, -739860>> :> 1770756967
    @@ <<2000000, -739855, 407560, -739870>> :> 1770712489
    @@ <<2000000, -739855, 0, -739855>> :> 1779118826
    @@ <<2000000, -739855, 2000000, -739855>> :> 0
    @@ <<2000000, -739855, 407128, -740060>> :> 1771192769
    @@ <<2000000, -739855, 0, 0>> :> 1167826362
    @@ <<2000000, -739855, 0, 10>> :> 1167815963
    @@ <<2000000, -739855, 100000, 100000>> :> 1100779457
    @@ <<2000000, -739855, -820000, -900000>> :> 864012863
    @@ <<2000000, -739855, 820000, 900000>> :> 1137495815
    @@ <<2000000, -739855, 900000, 0>> :> 1223144193
    @@ <<2000000, -739855, 407580, 0>> :> 1276665745
    @@ <<407128, -740060, 407580, -739855>> :> 531452
    @@ <<407128, -740060, 407520, -739860>> :> 467326
    @@ <<407128, -740060, 407560, -739870>> :> 506335
    @@ <<407128, -740060, 0, -739855>> :> 452705728
    @@ <<407128, -740060, 2000000, -739855>> :> 1771192769
    @@ <<407128, -740060, 407128, -740060>> :> 0
    @@ <<407128, -740060, 0, 0>> :> 866706815
    @@ <<407128, -740060, 0, 10>> :> 866715100
    @@ <<407128, -740060, 100000, 100000>> :> 878176371
    @@ <<407128, -740060, -820000, -900000>> :> 1367600966
    @@ <<407128, -740060, 820000, 900000>> :> 633907713
    @@ <<407128, -740060, 900000, 0>> :> 548048658
    @@ <<407128, -740060, 407580, 0>> :> 603393656
    @@ <<0, 0, 407580, -739855>> :> 866629506
    @@ <<0, 0, 407520, -739860>> :> 866621359
    @@ <<0, 0, 407560, -739870>> :> 866637829
    @@ <<0, 0, 0, -739855>> :> 822681224
    @@ <<0, 0, 2000000, -739855>> :> 1167826362
    @@ <<0, 0, 407128, -740060>> :> 866706815
    @@ <<0, 0, 0, 0>> :> 0
    @@ <<0, 0, 0, 10>> :> 11119
    @@ <<0, 0, 100000, 100000>> :> 156852055
    @@ <<0, 0, -820000, -900000>> :> 1000754339
    @@ <<0, 0, 820000, 900000>> :> 1000754339
    @@ <<0, 0, 900000, 0>> :> 1000754339
    @@ <<0, 0, 407580, 0>> :> 453208282
    @@ <<0, 10, 407580, -739855>> :> 866637785
    @@ <<0, 10, 407520, -739860>> :> 866629638
    @@ <<0, 10, 407560, -739870>> :> 866646108
    @@ <<0, 10, 0, -739855>> :> 822692344
    @@ <<0, 10, 2000000, -739855>> :> 1167815963
    @@ <<0, 10, 407128, -740060>> :> 866715100
    @@ <<0, 10, 0, 0>> :> 11119
    @@ <<0, 10, 0, 10>> :> 0
    @@ <<0, 10, 100000, 100000>> :> 156844253
    @@ <<0, 10, -820000, -900000>> :> 1000755887
    @@ <<0, 10, 820000, 900000>> :> 1000752792
    @@ <<0, 10, 900000, 0>> :> 1000754339
    @@ <<0, 10, 407580, 0>> :> 453208282
    @@ <<100000, 100000, 407580, -739855>> :> 877971063
    @@ <<100000, 100000, 407520, -739860>> :> 877979628
    @@ <<100000, 100000, 407560, -739870>> :> 877985125
    @@ <<100000, 100000, 0, -739855>> :> 934895844
    @@ <<100000, 100000, 2000000, -739855>> :> 1100779457
    @@ <<100000, 100000, 407128, -740060>> :> 878176371
    @@ <<100000, 100000, 0, 0>> :> 156852055
    @@ <<100000, 100000, 0, 10>> :> 156844253
    @@ <<100000, 100000, 100000, 100000>> :> 0
    @@ <<100000, 100000, -820000, -900000>> :> 1126282533
    @@ <<100000, 100000, 820000, 900000>> :> 875226145
    @@ <<100000, 100000, 900000, 0>> :> 889559413
    @@ <<100000, 100000, 407580, 0>> :> 355879046
    @@ <<-820000, -900000, 407580, -739855>> :> 1368110944
    @@ <<-820000, -900000, 407520, -739860>> :> 1368044105
    @@ <<-820000, -900000, 407560, -739870>> :> 1368088150
    @@ <<-820000, -900000, 0, -739855>> :> 915271905
    @@ <<-820000, -900000, 2000000, -739855>> :> 864012863
    @@ <<-820000, -900000, 407128, -740060>> :> 1367600966
    @@ <<-820000, -900000, 0, 0>> :> 1000754339
    @@ <<-820000, -900000, 0, 10>> :> 1000755887
    @@ <<-820000, -900000, 100000, 100000>> :> 1126282533
    @@ <<-820000, -900000, -820000, -900000>> :> 0
    @@ <<-820000, -900000, 820000, 900000>> :> -1
    @@ <<-820000, -900000, 900000, 0>> :> 1912552738
    @@ <<-820000, -900000, 407580, 0>> :> 1448637784
    @@ <<820000, 900000, 407580, -739855>> :> 633397734
    @@ <<820000, 900000, 407520, -739860>> :> 633464574
    @@ <<820000, 900000, 407560, -739870>> :> 633420528
    @@ <<820000, 900000, 0, -739855>> :> 1086236773
    @@ <<820000, 900000, 2000000, -739855>> :> 1137495815
    @@ <<820000, 900000, 407128, -740060>> :> 633907713
    @@ <<820000, 900000, 0, 0>> :> 1000754339
    @@ <<820000, 900000, 0, 10>> :> 1000752792
    @@ <<820000, 900000, 100000, 100000>> :> 875226145
    @@ <<820000, 900000, -820000, -900000>> :> -1
    @@ <<820000, 900000, 820000, 900000>> :> 0
    @@ <<820000, 900000, 900000, 0>> :> 88955941
    @@ <<820000, 900000, 407580, 0>> :> 552870894
    @@ <<900000, 0, 407580, -739855>> :> 547546057
    @@ <<900000, 0, 407520, -739860>> :> 547612774
    @@ <<900000, 0, 407560, -739870>> :> 547568296
    @@ <<900000, 0, 0, -739855>> :> 1000754339
    @@ <<900000, 0, 2000000, -739855>> :> 1223144193
    @@ <<900000, 0, 407128, -740060>> :> 548048658
    @@ <<900000, 0, 0, 0>> :> 1000754339
    @@ <<900000, 0, 0, 10>> :> 1000754339
    @@ <<900000, 0, 100000, 100000>> :> 889559413
    @@ <<900000, 0, -820000, -900000>> :> 1912552738
    @@ <<900000, 0, 820000, 900000>> :> 88955941
    @@ <<900000, 0, 900000, 0>> :> 0
    @@ <<900000, 0, 407580, 0>> :> 547546057
    @@ <<407580, 0, 407580, -739855>> :> 603016719
    @@ <<407580, 0, 407520, -739860>> :> 603049946
    @@ <<407580, 0, 407560, -739870>> :> 603037872
    @@ <<407580, 0, 0, -739855>> :> 866629506
    @@ <<407580, 0, 2000000, -739855>> :> 1276665745
    @@ <<407580, 0, 407128, -740060>> :> 603393656
    @@ <<407580, 0, 0, 0>> :> 453208282
    @@ <<407580, 0, 0, 10>> :> 453208282
    @@ <<407580, 0, 100000, 100000>> :> 355879046
    @@ <<407580, 0, -820000, -900000>> :> 1448637784
    @@ <<407580, 0, 820000, 900000>> :> 552870894
    @@ <<407580, 0, 900000, 0>> :> 547546057
    @@ <<407580, 0, 407580, 0>> :> 0 )

\* Math.round of a non-negative length given in centimetres
MathRound(cm) == (cm + 50) \div 100

\* calculateDistance(lat1, lng1, lat2, lng2): metres, rounded; NaN in, NaN out
calculateDistance(lat1, lng1, lat2, lng2) ==
    IF isNaN(lat1) \/ isNaN(lng1) \/ isNaN(lat2) \/ isNaN(lng2)
    THEN NaN
    ELSE LET distance == HaversineCm[<<lat1.n, lng1.n, lat2.n, lng2.n>>]
         IN  IF distance = -1 THEN NaN ELSE Num(MathRound(distance))

\* a <= b of two numbers: false when either is NaN
Leq(a, b) == ~isNaN(a) /\ ~isNaN(b) /\ a.n <= b.n
\* a > b of two numbers: false when either is NaN
Gt(a, b) == ~isNaN(a) /\ ~isNaN(b) /\ a.n > b.n
\* a < b of two numbers: false when either is NaN
Lt(a, b) == ~isNaN(a) /\ ~isNaN(b) /\ a.n < b.n
\* a - b of two numbers
Minus(a, b) == IF isNaN(a) \/ isNaN(b) THEN NaN ELSE Num(a.n - b.n)

----------------------------------------------------------------------------
(* data/users.js: the Map and its operations                                *)

\* the first two of the 28 entries of mockUsers; their lastSeen is the instant
\* the module was loaded
mockUsers ==
    << [username |-> "Sarah_M", latitude |-> Num(407580), longitude |-> Num(-739855),
        lastSeen |-> Iso(0)],
       [username |-> "Emma_K", latitude |-> Num(407520), longitude |-> Num(-739860),
        lastSeen |-> Iso(0)] >>

\* position of key k in the Map m, 0 when absent
IndexOf(m, k) ==
    IF \E i \in 1..Len(m) : m[i].username = k
    THEN CHOOSE i \in 1..Len(m) : m[i].username = k
    ELSE 0

\* (faulty variant: an existing key keeps its old value)
MapSetKeepFirst(m, k, v) ==
    IF IndexOf(m, k) # 0 THEN m ELSE Append(m, v)
\* Map.prototype.set: an existing key keeps its place, a new key goes last
MapSet(m, k, v) ==
    IF IndexOf(m, k) # 0 THEN [m EXCEPT ![IndexOf(m, k)] = v] ELSE Append(m, v)

\* Map.prototype.delete
MapDelete(m, k) ==
    LET i == IndexOf(m, k)
    IN  IF i = 0 THEN m ELSE SubSeq(m, 1, i - 1) \o SubSeq(m, i + 1, Len(m))

RECURSIVE SetAll(_, _)
SetAll(m, entries) ==
    IF entries = <<>> THEN m
    ELSE SetAll(MapSet(m, Head(entries).username, Head(entries)), Tail(entries))

\* initializeUsers(), run on module load over the empty Map
initializeUsers == SetAll(<<>>, mockUsers)

\* (faulty variant: only an absent field is refused, a number 0 is taken)
addUserRefusesAbsent(username, latitude, longitude) ==
    username = "" \/ latitude = Undefined \/ longitude = Undefined

\* the guard of addUser: a falsy username, latitude or longitude is refused
addUserRefuses(username, latitude, longitude) ==
    username = "" \/ ~Truthy(latitude) \/ ~Truthy(longitude)

\* (faulty variant: the entry is written before the fields are validated)
addUserStoresFirst(m, userData, clock) ==
    LET user == [username  |-> userData.username,
                 latitude  |-> parseFloat(userData.latitude),
                 longitude |-> parseFloat(userData.longitude),
                 lastSeen  |-> IF Truthy(userData.lastSeen)
                               THEN userData.lastSeen ELSE Iso(clock)]
        ok   == ~addUserRefuses(userData.username, userData.latitude, userData.longitude)
    IN  [users |-> MapSet(m, userData.username, user), ok |-> ok]
\* addUser(userData) at clock reading `clock`: the Map afterwards and the
\* boolean returned.  The username "" stands for an empty or missing username.
addUser(m, userData, clock) ==
    IF addUserRefuses(userData.username, userData.latitude, userData.longitude)
    THEN [users |-> m, ok |-> FALSE]
    ELSE LET user == [username  |-> userData.username,
                      latitude  |-> parseFloat(userData.latitude),
                      longitude |-> parseFloat(userData.longitude),
                      lastSeen  |-> IF Truthy(userData.lastSeen)
                                    THEN userData.lastSeen ELSE Iso(clock)]
         IN  [users |-> MapSet(m, userData.username, user), ok |-> TRUE]

\* (faulty variant: distance < radius)
WithinRadiusStrict(distance, radius) == Lt(distance, radius)
\* distance <= radius, the test of findNearbyUsers
WithinRadius(distance, radius) == Leq(distance, radius)

\* the entry is skipped as the excluded user: excludeUser && username === excludeUser
\* ("" stands for the default null)
IsExcluded(username, excludeUser) == excludeUser # "" /\ username = excludeUser

\* Array.prototype.sort((a, b) => a.distance - b.distance): stable, every
\* distance in the array is a number
RECURSIVE InsertByDistance(_, _)
InsertByDistance(sorted, x) ==
    IF sorted = <<>> THEN <<x>>
    ELSE IF x.distance.n - Head(sorted).distance.n < 0
         THEN <<x>> \o sorted
         ELSE <<Head(sorted)>> \o InsertByDistance(Tail(sorted), x)

RECURSIVE SortFrom(_, _)
SortFrom(sorted, rest) ==
    IF rest = <<>> THEN sorted
    ELSE SortFrom(InsertByDistance(sorted, Head(rest)), Tail(rest))

\* (faulty variant: the array is left in insertion order)
SortByDistanceNot(s) == s
SortByDistance(s) == SortFrom(<<>>, s)

\* the forEach of findNearbyUsers over the Map in insertion order
RECURSIVE ScanNearby(_, _, _, _, _)
ScanNearby(m, lat, lng, radius, excludeUser) ==
    IF m = <<>> THEN <<>>
    ELSE LET user     == Head(m)
             rest     == ScanNearby(Tail(m), lat, lng, radius, excludeUser)
             distance == calculateDistance(lat, lng, user.latitude, user.longitude)
         IN  IF IsExcluded(user.username, excludeUser) THEN rest
             ELSE IF isNaN(user.latitude) \/ isNaN(user.longitude) THEN rest
             ELSE IF WithinRadius(distance, radius)
                  THEN <<[username  |-> user.username,
                          latitude  |-> user.latitude,
                          longitude |-> user.longitude,
                          lastSeen  |-> user.lastSeen,
                          distance  |-> distance]>> \o rest
                  ELSE rest

\* findNearbyUsers(latitude, longitude, radius, excludeUser)
findNearbyUsers(m, latitude, longitude, radius, excludeUser) ==
    LET lat == parseFloat(latitude)
        lng == parseFloat(longitude)
    IN  IF isNaN(lat) \/ isNaN(lng) THEN <<>>
        ELSE SortByDistance(ScanNearby(m, lat, lng, radius, excludeUser))

\* getUser(username): the entry, or null (the empty sequence)
getUser(m, username) ==
    IF IndexOf(m, username) = 0 THEN <<>> ELSE <<m[IndexOf(m, username)]>>

\* removeUser(username)
removeUser(m, username) ==
    [users |-> MapDelete(m, username), removed |-> IndexOf(m, username) # 0]

\* getUserCount()
getUserCount(m) == Len(m)

\* the default maxAgeMs of cleanupOldUsers, 24 hours, in units of six hours
DefaultMaxAge == 4

\* (faulty variant: age >= maxAgeMs)
IsOldOrEqual(user, maxAgeMs, clock) ==
    Leq(maxAgeMs, Minus(Num(clock), DateOf(user.lastSeen)))
\* age > maxAgeMs of cleanupOldUsers, with age = now - new Date(user.lastSeen)
IsOld(user, maxAgeMs, clock) ==
    Gt(Minus(Num(clock), DateOf(user.lastSeen)), maxAgeMs)

RECURSIVE KeepYoung(_, _, _)
KeepYoung(m, maxAgeMs, clock) ==
    IF m = <<>> THEN <<>>
    ELSE IF IsOld(Head(m), maxAgeMs, clock)
         THEN KeepYoung(Tail(m), maxAgeMs, clock)
         ELSE <<Head(m)>> \o KeepYoung(Tail(m), maxAgeMs, clock)

\* cleanupOldUsers(maxAgeMs) at clock reading `clock`: `now` is read once, every
\* entry is visited once, an old one is deleted and counted
cleanupOldUsers(m, maxAgeMs, clock) ==
    LET kept == KeepYoung(m, maxAgeMs, clock)
    IN  [users |-> kept, removedCount |-> Len(m) - Len(kept)]

----------------------------------------------------------------------------
(* Bounds and inputs of the directory model                                 *)

\* the clock stops advancing here
MaxTime == 5

\* NEARBY_RADIUS of config/settings.js, metres
NEARBY_RADIUS == 500

\* the dashboard sockets that may connect
SocketIds == {"s1", "s2"}

\* request and argument values: numbers as JSON numbers, strings as JSON strings
LatSarah   == Num(407580)
LngSarah   == Num(-739855)
StrLatLisa == Str(<<"4", "0", ".", "7", "5", "6", "0">>)
StrLngLisa == Str(<<"-", "7", "3", ".", "9", "8", "7", "0">>)
StrZero    == Str(<<"0">>)
StrAbc     == Str(<<"a", "b", "c">>)

\* (latitude, longitude) arguments: a valid pair of numbers, a valid pair of
\* numeric strings, latitude "0", latitude 0, an unparsable latitude, latitude
\* 200, a missing latitude, an unparsable longitude
CoordInputs ==
    { <<LatSarah, LngSarah>>,
      <<StrLatLisa, StrLngLisa>>,
      <<StrZero, LngSarah>>,
      <<Num(0), LngSarah>>,
      <<StrAbc, LngSarah>>,
      <<Num(2000000), LngSarah>>,
      <<Undefined, LngSarah>>,
      <<LatSarah, StrAbc>> }

\* usernames passed to addUser ("" : empty or missing)
AddUserNames == {"user123", ""}
\* usernames posted to /api/sos
SosNames == {"Sarah_M", "user123", ""}
\* keys looked up or removed
KnownNames == {"Sarah_M", "Emma_K", "user123"}
\* lastSeen arguments of addUser: none, an ISO timestamp, a string that is no date
LastSeenInputs == {Undefined, Iso(0), StrAbc}
\* centres and radii of findNearbyUsers
CenterInputs == { <<LatSarah, LngSarah>>, <<StrLatLisa, StrLngLisa>>, <<StrAbc, LngSarah>> }
RadiusInputs == {Num(0), Num(256), Num(1000)}
\* excludeUser arguments ("": none)
ExcludeInputs == {"", "Sarah_M", "user123"}
\* maxAgeMs arguments of cleanupOldUsers, in units of six hours
MaxAgeInputs == {Num(0), Num(1)}

NoCall ==
    [op |-> "init", username |-> "", latitude |-> Undefined, longitude |-> Undefined,
     lastSeen |-> Undefined, radius |-> Undefined, exclude |-> "",
     maxAge |-> Undefined, at |-> 0]
NoRet ==
    [ok |-> FALSE, count |-> 0, list |-> <<>>, payload |-> <<>>, status |-> 0,
     error |-> "", notified |-> FALSE]

\* `before` is the collection as it was when a load settled, `read` the rows a
\* failed stream had pushed to its `results`
NoSeen ==
    [op |-> "none", gen |-> 0, result |-> <<>>, stats |-> <<>>, arg |-> <<>>,
     before |-> <<>>, read |-> <<>>, status |-> 0]

\* each operation records in `call` what it was given and in `ret` what it
\* returned or responded

----------------------------------------------------------------------------
(* Operations of data/users.js as actions                                   *)

AddUserOf(name, c, ls) ==
    LET r == addUser(users, [username |-> name, latitude |-> c[1],
                             longitude |-> c[2], lastSeen |-> ls], now)
    IN  /\ users' = r.users
        /\ call' = [NoCall EXCEPT !.op = "addUser", !.username = name,
                                  !.latitude = c[1], !.longitude = c[2],
                                  !.lastSeen = ls, !.at = now]
        /\ ret' = [NoRet EXCEPT !.ok = r.ok, !.count = Len(users)]
        /\ UNCHANGED <<now, timerDue, sockets, emits, upserted>>
        /\ UNCHANGED <<dataVars, server>>

AddUser ==
    \E name \in AddUserNames, c \in CoordInputs, ls \in LastSeenInputs :
        AddUserOf(name, c, ls)

FindNearby ==
    \E c \in CenterInputs, r \in RadiusInputs, x \in ExcludeInputs :
        /\ call' = [NoCall EXCEPT !.op = "findNearbyUsers", !.latitude = c[1],
                                  !.longitude = c[2], !.radius = r,
                                  !.exclude = x, !.at = now]
        /\ ret' = [NoRet EXCEPT !.list = findNearbyUsers(users, c[1], c[2], r, x)]
        /\ UNCHANGED <<users, now, timerDue, sockets, emits, upserted>>
        /\ UNCHANGED <<dataVars, server>>

GetUser ==
    \E name \in KnownNames :
        /\ call' = [NoCall EXCEPT !.op = "getUser", !.username = name, !.at = now]
        /\ ret' = [NoRet EXCEPT !.list = getUser(users, name)]
        /\ UNCHANGED <<users, now, timerDue, sockets, emits, upserted>>
        /\ UNCHANGED <<dataVars, server>>

RemoveUser ==
    \E name \in KnownNames :
        LET r == removeUser(users, name)
        IN  /\ users' = r.users
            /\ call' = [NoCall EXCEPT !.op = "removeUser", !.username = name, !.at = now]
            /\ ret' = [NoRet EXCEPT !.ok = r.removed]
            /\ UNCHANGED <<now, timerDue, sockets, emits, upserted>>
            /\ UNCHANGED <<dataVars, server>>

\* cleanupOldUsers(maxAgeMs) called by a user of the module; `ret.list` keeps
\* the entries as they were when the call was made
CleanupOldUsers ==
    \E maxAge \in MaxAgeInputs :
        LET r == cleanupOldUsers(users, maxAge, now)
        IN  /\ users' = r.users
            /\ call' = [NoCall EXCEPT !.op = "cleanupOldUsers", !.maxAge = maxAge,
                                      !.at = now]
            /\ ret' = [NoRet EXCEPT !.count = r.removedCount, !.list = users]
            /\ UNCHANGED <<now, timerDue, sockets, emits, upserted>>
            /\ UNCHANGED <<dataVars, server>>

\* six hours pass: the interval timer of data/users.js becomes due
Tick ==
    /\ now < MaxTime
    /\ ~timerDue
    /\ now' = now + 1
    /\ timerDue' = TRUE
    /\ call' = [NoCall EXCEPT !.op = "tick", !.at = now + 1]
    /\ ret' = NoRet
    /\ UNCHANGED <<users, sockets, emits, upserted>>
    /\ UNCHANGED <<dataVars, server>>

\* setInterval(() => { cleanupOldUsers(); }, 6 * 60 * 60 * 1000)
CleanupTimer ==
    /\ timerDue
    /\ timerDue' = FALSE
    /\ users' = cleanupOldUsers(users, Num(DefaultMaxAge), now).users
    /\ call' = [NoCall EXCEPT !.op = "timer", !.at = now]
    /\ ret' = NoRet
    /\ UNCHANGED <<now, sockets, emits, upserted>>
    /\ UNCHANGED <<dataVars, server>>

----------------------------------------------------------------------------
(* data/users.js driven through the end-to-end scenario                     *)

\* the three users of the scenario, coordinates as numbers: A at (0, 0), B at
\* (0, 0.001), C at (10, 10)
ScenarioPoints ==
    { [username |-> "A", latitude |-> Num(0), longitude |-> Num(0)],
      [username |-> "B", latitude |-> Num(0), longitude |-> Num(10)],
      [username |-> "C", latitude |-> Num(100000), longitude |-> Num(100000)] }

\* A and B with their coordinates as the strings of a request body
ScenarioStringPoints ==
    { [username |-> "A", latitude |-> StrZero, longitude |-> StrZero],
      [username |-> "B", latitude |-> StrZero,
       longitude |-> Str(<<"0", ".", "0", "0", "1">>)] }

\* the query of the scenario: centre (0, 0), radius 200 m, A excluded; and the
\* same query with nobody excluded
ScenarioRadius == Num(200)
ScenarioExcludes == {"A", ""}

\* addUser({username, latitude, longitude}) for a user of the scenario
UpsertPoint ==
    \E p \in ScenarioPoints \cup ScenarioStringPoints :
        LET r == addUser(users, [username |-> p.username, latitude |-> p.latitude,
                                 longitude |-> p.longitude, lastSeen |-> Undefined], now)
        IN  /\ users' = r.users
            /\ upserted' = upserted \cup {p}
            /\ call' = [NoCall EXCEPT !.op = "addUser", !.username = p.username,
                                      !.latitude = p.latitude,
                                      !.longitude = p.longitude, !.at = now]
            /\ ret' = [NoRet EXCEPT !.ok = r.ok, !.count = Len(users)]
            /\ UNCHANGED <<now, timerDue, sockets, emits>>
            /\ UNCHANGED <<dataVars, server>>

\* findNearbyUsers(0, 0, 200, excludeUser)
FindNearbyOrigin ==
    \E x \in ScenarioExcludes :
        /\ call' = [NoCall EXCEPT !.op = "findNearbyUsers", !.latitude = Num(0),
                                  !.longitude = Num(0), !.radius = ScenarioRadius,
                                  !.exclude = x, !.at = now]
        /\ ret' = [NoRet EXCEPT
                     !.list = findNearbyUsers(users, Num(0), Num(0), ScenarioRadius, x)]
        /\ UNCHANGED <<users, now, timerDue, sockets, emits, upserted>>
        /\ UNCHANGED <<dataVars, server>>

----------------------------------------------------------------------------
(* server.js: the dashboard socket set; routes/sos.js: POST /api/sos        *)

NoEmits == [s \in SocketIds |-> 0]

\* io.on('connection'): dashboardSockets.add(socket)
SocketConnect ==
    \E s \in SocketIds \ sockets :
        /\ sockets' = sockets \cup {s}
        /\ call' = [NoCall EXCEPT !.op = "connect", !.username = s, !.at = now]
        /\ ret' = NoRet
        /\ emits' = NoEmits
        /\ UNCHANGED <<users, now, timerDue, upserted>>
        /\ UNCHANGED <<dataVars, server>>

\* socket.on('disconnect'): dashboardSockets.delete(socket)
SocketDisconnect ==
    \E s \in sockets :
        /\ sockets' = sockets \ {s}
        /\ call' = [NoCall EXCEPT !.op = "disconnect", !.username = s, !.at = now]
        /\ ret' = NoRet
        /\ emits' = NoEmits
        /\ UNCHANGED <<users, now, timerDue, upserted>>
        /\ UNCHANGED <<dataVars, server>>

\* the first validation of POST /sos: a falsy field is "missing"
sosMissingFields(username, latitude, longitude) ==
    username = "" \/ ~Truthy(latitude) \/ ~Truthy(longitude)

\* (faulty variant: the ranges are not tested)
sosInvalidCoordinatesAnyRange(lat, lng) ==
    isNaN(lat) \/ isNaN(lng)
\* the second validation of POST /sos, on lat = parseFloat(latitude), lng likewise
sosInvalidCoordinates(lat, lng) ==
    \/ isNaN(lat) \/ isNaN(lng)
    \/ lat.n < -90 * 10000 \/ lat.n > 90 * 10000
    \/ lng.n < -180 * 10000 \/ lng.n > 180 * 10000

\* nearbyUsers.map(user => ({username, ..., distance: calculateDistance(...)}))
RECURSIVE MapNearby(_, _, _)
MapNearby(nearbyUsers, lat, lng) ==
    IF nearbyUsers = <<>> THEN <<>>
    ELSE LET user == Head(nearbyUsers)
         IN  <<[username |-> user.username,
                distance |-> calculateDistance(lat, lng, user.latitude, user.longitude)]>>
             \o MapNearby(Tail(nearbyUsers), lat, lng)

\* the proximity query of POST /sos: findNearbyUsers(lat, lng, NEARBY_RADIUS),
\* called without the fourth argument
sosNearby(m, lat, lng, username) ==
    findNearbyUsers(m, lat, lng, Num(NEARBY_RADIUS), "")

\* (faulty variant: every socket that ever connected is sent the event)
broadcastToAll(dashboardSockets) == [s \in SocketIds |-> 1]
\* req.dashboardSockets.forEach(socket => socket.emit('sos-alert', payload)),
\* run when the set is not empty: the number of events each socket is sent
broadcast(dashboardSockets) ==
    [s \in SocketIds |-> IF s \in dashboardSockets THEN 1 ELSE 0]

\* router.post('/sos'): validation, proximity query, broadcast to every
\* dashboard socket, addUser of the sender, the 200 response.  Nothing in the
\* try block throws for these bodies, so the 500 branch is not taken.
\* the handler of POST /sos on the body {username: name, latitude: c[1],
\* longitude: c[2]}: the response, the emits and the directory afterwards
sosHandler(name, c) ==
    LET lat == parseFloat(c[1])
        lng == parseFloat(c[2])
        nearbyUsers == sosNearby(users, lat, lng, name)
    IN  IF sosMissingFields(name, c[1], c[2])
        THEN /\ ret' = [NoRet EXCEPT !.status = 400,
                                     !.error = "Missing required fields"]
             /\ emits' = NoEmits
             /\ UNCHANGED users
        ELSE IF sosInvalidCoordinates(lat, lng)
        THEN /\ ret' = [NoRet EXCEPT !.status = 400,
                                     !.error = "Invalid coordinates"]
             /\ emits' = NoEmits
             /\ UNCHANGED users
        ELSE /\ emits' = broadcast(sockets)
             /\ users' = addUser(users, [username |-> name, latitude |-> lat,
                                         longitude |-> lng,
                                         lastSeen |-> Iso(now)], now).users
             /\ ret' = [NoRet EXCEPT
                          !.ok = TRUE,
                          !.status = 200,
                          !.list = MapNearby(nearbyUsers, lat, lng),
                          !.payload = IF sockets # {}
                                      THEN MapNearby(nearbyUsers, lat, lng)
                                      ELSE <<>>,
                          !.notified = (sockets # {})]

PostSosOf(name, c) ==
    /\ call' = [NoCall EXCEPT !.op = "sos", !.username = name,
                              !.latitude = c[1], !.longitude = c[2],
                              !.at = now]
    /\ sosHandler(name, c)
    /\ UNCHANGED <<now, timerDue, sockets, upserted>>
    /\ UNCHANGED <<dataVars, server>>

PostSos ==
    \E name \in SosNames, c \in CoordInputs : PostSosOf(name, c)

\* frames of nested router.handle calls the stack of the model holds
MaxStack == 3

\* the routes of routes/sos.js in the order they are registered: the one that
\* matches a request of this method and url
sosRoute(method, url) ==
    IF method = "POST" /\ url = "/sos" THEN "sos"
    ELSE IF method = "GET" /\ url = "/sos/test" THEN "sos/test"
    ELSE "none"

\* router.handle(req, res) with `depth` handler frames on the stack: the request
\* is dispatched by req.method and req.url.  The handler of GET /sos/test
\* assigns req.body and calls router.handle(req, res) with the same req, whose
\* method is still GET and whose url is still /sos/test, so the same route
\* matches again, synchronously, until the stack is exhausted (RangeError).
RECURSIVE routerHandle(_, _, _)
routerHandle(method, url, depth) ==
    IF depth > MaxStack THEN "RangeError"
    ELSE IF sosRoute(method, url) = "sos/test"
         THEN routerHandle(method, url, depth + 1)
         ELSE sosRoute(method, url)

\* GET /api/sos/test.  The RangeError thrown in the nested handlers is passed
\* to next(err) and answered by the error-handling middleware of server.js.
GetSosTest ==
    LET testAlert == <<Num(407128), Num(-740060)>>
        reached   == routerHandle("GET", "/sos/test", 1)
    IN  /\ call' = [NoCall EXCEPT !.op = "sos/test", !.username = "TestUser",
                                  !.latitude = testAlert[1],
                                  !.longitude = testAlert[2], !.at = now]
        /\ IF reached = "sos"
           THEN sosHandler("TestUser", testAlert)
           ELSE /\ ret' = [NoRet EXCEPT !.status = 500,
                                        !.error = "Internal server error"]
                /\ emits' = NoEmits
                /\ UNCHANGED users
        /\ UNCHANGED <<now, timerDue, sockets, upserted>>
        /\ UNCHANGED <<dataVars, server>>

----------------------------------------------------------------------------
(* utils/csvParser.js: strings                                              *)

UpperCase == <<"A", "B", "C", "D", "E", "F", "G", "H", "I", "J", "K", "L", "M",
               "N", "O", "P", "Q", "R", "S", "T", "U", "V", "W", "X", "Y", "Z">>
LowerCase == <<"a", "b", "c", "d", "e", "f", "g", "h", "i", "j", "k", "l", "m",
               "n", "o", "p", "q", "r", "s", "t", "u", "v", "w", "x", "y", "z">>

LowerChar(c) ==
    IF \E i \in 1..26 : UpperCase[i] = c
    THEN LowerCase[CHOOSE i \in 1..26 : UpperCase[i] = c]
    ELSE c

\* String.prototype.toLowerCase
toLowerCase(cs) == [i \in 1..Len(cs) |-> LowerChar(cs[i])]

RECURSIVE TrimEnd(_)
TrimEnd(cs) ==
    IF cs # <<>> /\ cs[Len(cs)] = " " THEN TrimEnd(SubSeq(cs, 1, Len(cs) - 1)) ELSE cs

\* String.prototype.trim
trim(cs) == TrimEnd(SkipSpace(cs))

\* String.prototype.includes
includes(cs, sub) ==
    \E i \in 1..(Len(cs) - Len(sub) + 1) : SubSeq(cs, i, i + Len(sub) - 1) = sub

----------------------------------------------------------------------------
(* utils/csvParser.js: loadCrimeData and the readers                        *)

\* loadCrimeData() may be called this many times
MaxLoadCalls == 2

Theft   == <<"T", "h", "e", "f", "t">>
Assault == <<"A", "s", "s", "a", "u", "l", "t">>
Unknown == <<"U", "n", "k", "n", "o", "w", "n">>

\* rows as csv-parser emits them: every present field is a string
RowSarah == [latitude  |-> Str(<<"4", "0", ".", "7", "5", "8", "0">>),
             longitude |-> Str(<<"-", "7", "3", ".", "9", "8", "5", "5">>),
             type      |-> Str(Theft)]
RowEmma  == [latitude  |-> Str(<<"4", "0", ".", "7", "5", "2", "0">>),
             longitude |-> Str(<<"-", "7", "3", ".", "9", "8", "6", "0">>),
             type      |-> Undefined]
RowBlank == [latitude  |-> StrLatLisa, longitude |-> StrLngLisa,
             type      |-> Str(<<" ", " ">>)]
Row200   == [latitude  |-> Str(<<"2", "0", "0">>),
             longitude |-> Str(<<"8", "0">>),
             type      |-> Str(Theft)]
RowAbc   == [latitude  |-> StrAbc,
             longitude |-> Str(<<"-", "7", "3", ".", "9", "8", "5", "5">>),
             type      |-> Str(Assault)]

\* the contents data/crime-data.csv may have
CsvFiles ==
    { <<RowSarah, Row200, RowEmma>>,
      <<RowBlank, RowAbc>> }

\* (faulty variant: the ranges are not tested)
rowIsValidAnyRange(latitude, longitude) ==
    ~isNaN(latitude) /\ ~isNaN(longitude)
\* the coordinate test of the 'data' handler
rowIsValid(latitude, longitude) ==
    /\ ~isNaN(latitude) /\ ~isNaN(longitude)
    /\ latitude.n >= -90 * 10000 /\ latitude.n <= 90 * 10000
    /\ longitude.n >= -180 * 10000 /\ longitude.n <= 180 * 10000

\* (faulty variant: the handler pushes every accepted row onto crimeData too)
onDataAppends(ld, cd) ==
    LET row       == Head(ld.rows)
        latitude  == parseFloat(row.latitude)
        longitude == parseFloat(row.longitude)
        type      == IF Truthy(row.type) THEN trim(row.type.s) ELSE Unknown
        record    == [id |-> Len(ld.results) + 1, latitude |-> latitude,
                      longitude |-> longitude, type |-> type,
                      raw |-> row, load |-> ld.gen]
    IN  IF rowIsValid(latitude, longitude)
        THEN [results |-> Append(ld.results, record), crimeData |-> Append(cd, record)]
        ELSE [results |-> ld.results, crimeData |-> cd]
\* (faulty variant: the handler publishes every accepted row in crimeData)
onDataShared(ld, cd) ==
    LET row       == Head(ld.rows)
        latitude  == parseFloat(row.latitude)
        longitude == parseFloat(row.longitude)
        type      == IF Truthy(row.type) THEN trim(row.type.s) ELSE Unknown
        pushed    == IF rowIsValid(latitude, longitude)
                     THEN Append(ld.results,
                                 [id |-> Len(ld.results) + 1, latitude |-> latitude,
                                  longitude |-> longitude, type |-> type,
                                  raw |-> row, load |-> ld.gen])
                     ELSE ld.results
    IN  [results |-> pushed, crimeData |-> pushed]
\* (faulty variant: the identifier is the number of the row in the source)
onDataRowNumber(ld, cd) ==
    LET row       == Head(ld.rows)
        latitude  == parseFloat(row.latitude)
        longitude == parseFloat(row.longitude)
        type      == IF Truthy(row.type) THEN trim(row.type.s) ELSE Unknown
    IN  [results   |-> IF rowIsValid(latitude, longitude)
                       THEN Append(ld.results,
                                   [id |-> Len(sources[ld.gen]) - Len(ld.rows) + 1,
                                    latitude |-> latitude,
                                    longitude |-> longitude, type |-> type,
                                    raw |-> row, load |-> ld.gen])
                       ELSE ld.results,
         crimeData |-> cd]
\* the 'data' handler of load ld on its next row: `results` afterwards, and
\* the module's crimeData, which the handler does not assign.  `load` in a
\* record is the identity of the row object kept in `raw`: the parser of each
\* loadCrimeData() call creates its own row objects.
onData(ld, cd) ==
    LET row       == Head(ld.rows)
        latitude  == parseFloat(row.latitude)
        longitude == parseFloat(row.longitude)
        type      == IF Truthy(row.type) THEN trim(row.type.s) ELSE Unknown
    IN  [results   |-> IF rowIsValid(latitude, longitude)
                       THEN Append(ld.results,
                                   [id |-> Len(ld.results) + 1, latitude |-> latitude,
                                    longitude |-> longitude, type |-> type,
                                    raw |-> row, load |-> ld.gen])
                       ELSE ld.results,
         crimeData |-> cd]

\* getCrimeData()
getCrimeData(cd, loaded) == IF ~loaded THEN <<>> ELSE cd

\* getCrimesByType(crimeType)
getCrimesByType(cd, crimeType) ==
    LET keep(crime) == includes(toLowerCase(crime.type), toLowerCase(crimeType))
    IN  SelectSeq(cd, keep)

\* getCrimesInArea(centerLat, centerLng, radius)
getCrimesInArea(cd, centerLat, centerLng, radius) ==
    LET keep(crime) ==
            Leq(calculateDistance(centerLat, centerLng, crime.latitude, crime.longitude),
                radius)
    IN  SelectSeq(cd, keep)

\* the byType object of getCrimeStats: the keys present and their counts
byTypeOf(cd) ==
    LET key(crime) == IF crime.type # <<>> THEN crime.type ELSE Unknown
        keys == {key(cd[i]) : i \in 1..Len(cd)}
    IN  [k \in keys |-> Cardinality({i \in 1..Len(cd) : key(cd[i]) = k})]

\* getCrimeStats()
getCrimeStats(cd, loaded) ==
    [total |-> Len(cd), byType |-> byTypeOf(cd), loaded |-> loaded]

----------------------------------------------------------------------------
(* routes/crime-zones.js: GET /api/crime-zones                              *)

\* the type filter of the route: applied when `type` is given and not empty
zoneTypeFilter(list, type) ==
    LET keep(crime) ==
            crime.type # <<>> /\ includes(toLowerCase(crime.type), toLowerCase(type.s))
    IN  IF Truthy(type) THEN SelectSeq(list, keep) ELSE list

\* the area filter of the route: applied when lat, lng and radius are given and
\* all three parse; the radius is parsed from its string, the distance is in
\* whole metres
zoneAreaFilter(list, lat, lng, radius) ==
    LET latitude     == parseFloat(lat)
        longitude    == parseFloat(lng)
        searchRadius == parseFloat(radius)
        keep(crime)  ==
            LET distance == calculateDistance(latitude, longitude,
                                              parseFloat(crime.latitude),
                                              parseFloat(crime.longitude))
            IN  ~isNaN(distance) /\ distance.n <= searchRadius.n \div 10000
    IN  IF Truthy(lat) /\ Truthy(lng) /\ Truthy(radius)
           /\ ~isNaN(latitude) /\ ~isNaN(longitude) /\ ~isNaN(searchRadius)
        THEN SelectSeq(list, keep)
        ELSE list

\* (faulty variant: the area filter is applied to the unfiltered collection)
crimeZonesAreaOverAll(cd, loaded, query) ==
    LET all == getCrimeData(cd, loaded)
    IN  IF Len(all) = 0 THEN <<>>
        ELSE IF Truthy(query.lat) /\ Truthy(query.lng) /\ Truthy(query.radius)
             THEN zoneAreaFilter(all, query.lat, query.lng, query.radius)
             ELSE zoneTypeFilter(all, query.type)
\* router.get('/crime-zones'): the `data` of the 200 response for the query
\* {lat, lng, radius, type}
crimeZones(cd, loaded, query) ==
    LET all == getCrimeData(cd, loaded)
    IN  IF Len(all) = 0 THEN <<>>
        ELSE zoneAreaFilter(zoneTypeFilter(all, query.type),
                            query.lat, query.lng, query.radius)

\* the status of the response: both the branch of the empty collection and the
\* end of the try block answer res.status(200), whatever the filters did
crimeZonesStatus(cd, loaded, query) ==
    IF Len(getCrimeData(cd, loaded)) = 0 THEN 200 ELSE 200

\* query strings of the route: type and area, type and a smaller area, type
\* alone, area alone, an area whose lat is no number
StrLatSarah == Str(<<"4", "0", ".", "7", "5", "8", "0">>)
StrLngSarah == Str(<<"-", "7", "3", ".", "9", "8", "5", "5">>)
ZoneQueries ==
    { [type |-> Str(<<"T", "H", "E", "F", "T">>), lat |-> StrLatSarah,
       lng |-> StrLngSarah, radius |-> Str(<<"7", "0", "0">>)],
      [type |-> Str(<<"N">>), lat |-> StrLatSarah,
       lng |-> StrLngSarah, radius |-> Str(<<"2", "5", "6">>)],
      [type |-> Str(<<"N">>), lat |-> Undefined, lng |-> Undefined,
       radius |-> Undefined],
      [type |-> Undefined, lat |-> StrLatSarah,
       lng |-> StrLngSarah, radius |-> Str(<<"7", "0", "0">>)],
      [type |-> Undefined, lat |-> StrAbc,
       lng |-> StrLngSarah, radius |-> Str(<<"7", "0", "0">>)] }

----------------------------------------------------------------------------
(* utils/csvParser.js as actions                                            *)

\* the process has not been ended by an uncaught exception
Running == seen.op # "uncaught"

\* arguments of the readers
TypeQueries == {<<"t", "h", "e", "f", "t">>, <<"K", "N">>}
AreaQueries == { <<LatSarah, LngSarah, Num(256)>>,
                 <<Num(407520), Num(-739860), Num(500)>> }

\* (faulty variant: with no file the collection is left as it was)
loadCrimeDataKeeps(reload) ==
    /\ IF ~fileExists
       THEN /\ UNCHANGED crimeData
            /\ isDataLoaded' = TRUE
            /\ UNCHANGED loads
            /\ sources' = Append(sources, <<>>)
            /\ seen' = [NoSeen EXCEPT !.op = "resolve", !.gen = Len(sources) + 1,
                                      !.before = crimeData]
       ELSE /\ loads' = loads \cup {[gen |-> Len(sources) + 1, rows |-> csvFile,
                                     results |-> <<>>, reload |-> reload]}
            /\ sources' = Append(sources, csvFile)
            /\ isDataLoaded' = (isDataLoaded /\ ~reload)
            /\ seen' = [NoSeen EXCEPT !.op = "pending", !.gen = Len(sources) + 1]
            /\ UNCHANGED crimeData
    /\ UNCHANGED <<csvFile, fileExists>>
    /\ UNCHANGED dirVars
\* the body of loadCrimeData(): with no file the collection is emptied at once,
\* otherwise a stream is opened on the file with an empty `results`
loadCrimeData(reload) ==
    /\ IF ~fileExists
       THEN /\ crimeData' = <<>>
            /\ isDataLoaded' = TRUE
            /\ UNCHANGED loads
            /\ sources' = Append(sources, <<>>)
            /\ seen' = [NoSeen EXCEPT !.op = "resolve", !.gen = Len(sources) + 1,
                                      !.before = crimeData]
       ELSE /\ loads' = loads \cup {[gen |-> Len(sources) + 1, rows |-> csvFile,
                                     results |-> <<>>, reload |-> reload]}
            /\ sources' = Append(sources, csvFile)
            /\ isDataLoaded' = (isDataLoaded /\ ~reload)
            /\ seen' = [NoSeen EXCEPT !.op = "pending", !.gen = Len(sources) + 1]
            /\ UNCHANGED crimeData
    /\ UNCHANGED <<csvFile, fileExists>>
    /\ UNCHANGED dirVars

\* loadCrimeData()
LoadCrimeData ==
    /\ Running
    /\ Len(sources) < MaxLoadCalls
    /\ loadCrimeData(FALSE)
    /\ UNCHANGED server

\* reloadCrimeData(): isDataLoaded = false; return loadCrimeData()
ReloadCrimeData ==
    /\ Running
    /\ Len(sources) < MaxLoadCalls
    /\ loadCrimeData(TRUE)
    /\ UNCHANGED server

\* a 'data' event of one of the streams
StreamData ==
    \E ld \in loads :
        /\ Running
        /\ ld.rows # <<>>
        /\ loads' = (loads \ {ld}) \cup
                    {[ld EXCEPT !.rows = Tail(ld.rows),
                                !.results = onData(ld, crimeData).results]}
        /\ crimeData' = onData(ld, crimeData).crimeData
        /\ seen' = [NoSeen EXCEPT !.op = "data"]
        /\ UNCHANGED <<isDataLoaded, csvFile, fileExists, sources>>
        /\ UNCHANGED <<dirVars, server>>

\* (faulty variant: the load that ends first wins, a later end keeps the
\* collection that is there)
StreamEndFirstWins ==
    \E ld \in loads :
        /\ Running
        /\ ld.rows = <<>>
        /\ crimeData' = IF crimeData = <<>> THEN ld.results ELSE crimeData
        /\ isDataLoaded' = TRUE
        /\ loads' = loads \ {ld}
        /\ seen' = [NoSeen EXCEPT !.op = "resolve", !.gen = ld.gen,
                                  !.result = ld.results]
        /\ UNCHANGED <<csvFile, fileExists, sources>>
        /\ UNCHANGED <<dirVars, server>>

\* the 'end' event: crimeData = results; isDataLoaded = true; resolve(results)
StreamEnd ==
    \E ld \in loads :
        /\ Running
        /\ ld.rows = <<>>
        /\ crimeData' = ld.results
        /\ isDataLoaded' = TRUE
        /\ loads' = loads \ {ld}
        /\ seen' = [NoSeen EXCEPT !.op = "resolve", !.gen = ld.gen,
                                  !.result = ld.results]
        /\ UNCHANGED <<csvFile, fileExists, sources>>
        /\ UNCHANGED <<dirVars, server>>

\* the 'error' event: crimeData = []; isDataLoaded = true; reject(error)
StreamError ==
    \E ld \in loads :
        /\ Running
        /\ crimeData' = <<>>
        /\ isDataLoaded' = TRUE
        /\ loads' = loads \ {ld}
        /\ seen' = [NoSeen EXCEPT !.op = "reject", !.gen = ld.gen,
                                  !.before = crimeData, !.read = ld.results]
        /\ UNCHANGED <<csvFile, fileExists, sources>>
        /\ UNCHANGED <<dirVars, server>>

\* the file stream of a load fails while rows remain to be read.  The 'error'
\* listener of loadCrimeData is attached to the parser that pipe() returns, and
\* pipe() does not forward the errors of its source: the 'error' event of the
\* file stream has no listener, it is thrown as an uncaught exception and the
\* process ends (server.js installs no handler for it).  Nothing is assigned
\* and the promise of the load is never settled.
ReadStreamError ==
    \E ld \in loads :
        /\ Running
        /\ ld.rows # <<>>
        /\ loads' = {}
        /\ seen' = [NoSeen EXCEPT !.op = "uncaught", !.gen = ld.gen,
                                  !.before = crimeData, !.read = ld.results]
        /\ UNCHANGED <<crimeData, isDataLoaded, csvFile, fileExists, sources>>
        /\ UNCHANGED <<dirVars, server>>

ReadAll ==
    /\ Running
    /\ seen' = [NoSeen EXCEPT !.op = "getCrimeData",
                              !.result = getCrimeData(crimeData, isDataLoaded)]
    /\ UNCHANGED <<crimeData, isDataLoaded, csvFile, fileExists, loads, sources>>
    /\ UNCHANGED <<dirVars, server>>

ReadByType ==
    \E q \in TypeQueries :
        /\ Running
        /\ seen' = [NoSeen EXCEPT !.op = "getCrimesByType", !.arg = q,
                                  !.result = getCrimesByType(crimeData, q)]
        /\ UNCHANGED <<crimeData, isDataLoaded, csvFile, fileExists, loads, sources>>
        /\ UNCHANGED <<dirVars, server>>

ReadInArea ==
    \E q \in AreaQueries :
        /\ Running
        /\ seen' = [NoSeen EXCEPT !.op = "getCrimesInArea", !.arg = q,
                                  !.result = getCrimesInArea(crimeData, q[1], q[2], q[3])]
        /\ UNCHANGED <<crimeData, isDataLoaded, csvFile, fileExists, loads, sources>>
        /\ UNCHANGED <<dirVars, server>>

ReadStats ==
    /\ Running
    /\ seen' = [NoSeen EXCEPT !.op = "getCrimeStats",
                              !.stats = <<getCrimeStats(crimeData, isDataLoaded)>>]
    /\ UNCHANGED <<crimeData, isDataLoaded, csvFile, fileExists, loads, sources>>
    /\ UNCHANGED <<dirVars, server>>

\* GET /api/crime-zones
GetCrimeZones ==
    \E q \in ZoneQueries :
        /\ Running
        /\ seen' = [NoSeen EXCEPT !.op = "crime-zones", !.arg = <<q>>,
                                  !.result = crimeZones(crimeData, isDataLoaded, q),
                                  !.status = crimeZonesStatus(crimeData, isDataLoaded, q)]
        /\ UNCHANGED <<crimeData, isDataLoaded, csvFile, fileExists, loads, sources>>
        /\ UNCHANGED <<dirVars, server>>

\* valid (latitude, longitude) arguments of calculateDistance: the points of
\* the directory and of the dataset, the points of the end-to-end scenario, and
\* the antipodes (-82, -90) and (82, 90), the north pole
DistancePoints ==
    { <<407580, -739855>>, <<407520, -739860>>, <<407560, -739870>>,
      <<0, -739855>>, <<407128, -740060>>,
      <<0, 0>>, <<0, 10>>, <<100000, 100000>>,
      <<-820000, -900000>>, <<820000, 900000>>, <<900000, 0>> }

\* calculateDistance(lat1, lng1, lat2, lng2) called on two valid points
CalculateDistance ==
    \E p \in DistancePoints, q \in DistancePoints :
        /\ seen' = [NoSeen EXCEPT
                      !.op = "calculateDistance",
                      !.arg = <<Num(p[1]), Num(p[2]), Num(q[1]), Num(q[2])>>,
                      !.result = <<calculateDistance(Num(p[1]), Num(p[2]),
                                                     Num(q[1]), Num(q[2]))>>]
        /\ UNCHANGED <<crimeData, isDataLoaded, csvFile, fileExists, loads, sources>>
        /\ UNCHANGED <<dirVars, server>>

\* data/crime-data.csv is replaced between loads
WriteFile ==
    \E f \in CsvFiles :
        /\ Running
        /\ ~(fileExists /\ csvFile = f)
        /\ csvFile' = f
        /\ fileExists' = TRUE
        /\ seen' = NoSeen
        /\ UNCHANGED <<crimeData, isDataLoaded, loads, sources>>
        /\ UNCHANGED <<dirVars, server>>

\* data/crime-data.csv is removed
RemoveFile ==
    /\ Running
    /\ fileExists
    /\ csvFile' = <<>>
    /\ fileExists' = FALSE
    /\ seen' = NoSeen
    /\ UNCHANGED <<crimeData, isDataLoaded, loads, sources>>
    /\ UNCHANGED <<dirVars, server>>

----------------------------------------------------------------------------
(* Initial state and specifications                                         *)

InitData ==
    /\ crimeData = <<>>
    /\ isDataLoaded = FALSE
    /\ csvFile = <<RowSarah, Row200, RowEmma>>
    /\ fileExists = TRUE
    /\ loads = {}
    /\ sources = <<>>
    /\ seen = NoSeen

\* data/users.js after module load; no socket has connected
Init ==
    /\ users = initializeUsers
    /\ now = 0
    /\ timerDue = FALSE
    /\ sockets = {}
    /\ emits = NoEmits
    /\ call = NoCall
    /\ ret = NoRet
    /\ upserted = {}
    /\ server = "starting"
    /\ InitData

\* the directory module used through its exported functions
Next ==
    \/ AddUser
    \/ FindNearby
    \/ GetUser
    \/ RemoveUser
    \/ CleanupOldUsers
    \/ Tick
    \/ CleanupTimer

Spec == Init /\ [][Next]_vars

\* the server: alerts posted to /api/sos, dashboards connecting and leaving
NextSos ==
    \/ PostSos
    \/ SocketConnect
    \/ SocketDisconnect
    \/ Tick
    \/ CleanupTimer

SpecSos == Init /\ [][NextSos]_vars

\* the directory module driven through the end-to-end scenario
NextScenario ==
    \/ UpsertPoint
    \/ FindNearbyOrigin

SpecScenario == Init /\ [][NextScenario]_vars

\* utils/csvParser.js used through its exported functions while streams run
NextData ==
    \/ LoadCrimeData
    \/ ReloadCrimeData
    \/ StreamData
    \/ StreamEnd
    \/ StreamError
    \/ ReadStreamError
    \/ ReadAll
    \/ ReadByType
    \/ ReadInArea
    \/ ReadStats
    \/ GetCrimeZones
    \/ WriteFile
    \/ RemoveFile

SpecData == Init /\ [][NextData]_vars

\* utils/haversine.js used through calculateDistance
NextDistance ==
    \/ CalculateDistance

SpecDistance == Init /\ [][NextDistance]_vars

\* callers that send the equator or the prime meridian, as a number or as the
\* string "0", to addUser and to POST /api/sos
ZeroCoordInputs ==
    { <<LatSarah, LngSarah>>,
      <<Num(0), LngSarah>>,
      <<LatSarah, Num(0)>>,
      <<StrZero, LngSarah>>,
      <<LatSarah, StrZero>> }

AddUserAtZero ==
    \E c \in ZeroCoordInputs, ls \in {Undefined, Iso(0)} :
        AddUserOf("user123", c, ls)

PostSosAtZero ==
    \E name \in {"Sarah_M", "user123"}, c \in ZeroCoordInputs : PostSosOf(name, c)

NextZero ==
    \/ AddUserAtZero
    \/ PostSosAtZero
    \/ SocketConnect
    \/ SocketDisconnect

SpecZero == Init /\ [][NextZero]_vars

\* initializeServer() up to its await: loadCrimeData() is called
InitializeServer ==
    /\ server = "starting"
    /\ Running
    /\ loadCrimeData(FALSE)
    /\ server' = "loading"

\* (faulty variant: server.listen is called without awaiting the load)
initialLoadNotAwaited == TRUE
\* the promise of the initial load is fulfilled: `await loadCrimeData()` returns
initialLoadResolved == seen.op = "resolve" /\ seen.gen = 1
\* the promise of the initial load is rejected: `await` throws into the catch
initialLoadRejected == seen.op = "reject" /\ seen.gen = 1

\* after the await: server.listen(PORT, '0.0.0.0')
ServerListen ==
    /\ server = "loading"
    /\ Running
    /\ initialLoadResolved
    /\ server' = "listening"
    /\ UNCHANGED <<dirVars, dataVars>>

\* the catch of initializeServer: process.exit(1)
ServerExit ==
    /\ server = "loading"
    /\ Running
    /\ initialLoadRejected
    /\ server' = "exited"
    /\ UNCHANGED <<dirVars, dataVars>>

\* the file as the process finds it when it starts
WriteFileBeforeStart ==
    /\ server = "starting"
    /\ WriteFile

RemoveFileBeforeStart ==
    /\ server = "starting"
    /\ RemoveFile

\* requests reach the routes once the http server listens
HandleSos ==
    /\ server = "listening"
    /\ \E name \in {"Sarah_M", "user123"},
          c \in {<<LatSarah, LngSarah>>, <<StrLatLisa, StrLngLisa>>, <<Undefined, LngSarah>>} :
          PostSosOf(name, c)

HandleSosTest ==
    /\ server = "listening"
    /\ GetSosTest

HandleCrimeZones ==
    /\ server = "listening"
    /\ GetCrimeZones

\* server.js from process start
NextServer ==
    \/ WriteFileBeforeStart
    \/ RemoveFileBeforeStart
    \/ InitializeServer
    \/ StreamData
    \/ StreamEnd
    \/ StreamError
    \/ ReadStreamError
    \/ ServerListen
    \/ ServerExit
    \/ HandleSos
    \/ HandleSosTest
    \/ HandleCrimeZones

SpecServer == Init /\ [][NextServer]_vars

\* an entry as it reads once the clock of the model is set back one period:
\* its timestamp lies one period earlier.  A timestamp at 0 stays: at the
\* reading MaxTime its age is above DefaultMaxAge already and only grows.
SetBack(user) ==
    IF user.lastSeen.t = "isodate" /\ user.lastSeen.n > 0
    THEN [user EXCEPT !.lastSeen = Iso(user.lastSeen.n - 1)]
    ELSE user

\* six hours pass, without end: up to MaxTime the clock reading grows, from
\* then on the reading is kept and every timestamp is set back instead, which
\* leaves every age now - lastSeen as one more period makes it
TickOn ==
    /\ ~timerDue
    /\ IF now < MaxTime
       THEN /\ now' = now + 1
            /\ UNCHANGED users
       ELSE /\ now' = now
            /\ users' = [i \in 1..Len(users) |-> SetBack(users[i])]
    /\ timerDue' = TRUE
    /\ call' = [NoCall EXCEPT !.op = "tick", !.at = now']
    /\ ret' = NoRet
    /\ UNCHANGED <<sockets, emits, upserted>>
    /\ UNCHANGED <<dataVars, server>>

\* addUser calls of the users of the module while the timer runs
AddUserSweep ==
    \E c \in {<<LatSarah, LngSarah>>, <<StrLatLisa, StrLngLisa>>},
       ls \in LastSeenInputs :
       AddUserOf("user123", c, ls)

\* the directory with its interval timer running: time keeps advancing and
\* every period the callback of setInterval runs
NextSweep ==
    \/ AddUserSweep
    \/ TickOn
    \/ CleanupTimer

SpecSweep ==
    Init /\ [][NextSweep]_vars /\ WF_vars(TickOn) /\ WF_vars(CleanupTimer)

----------------------------------------------------------------------------
(* Properties of the alert route and the directory                          *)

Usernames(list) == {list[i].username : i \in 1..Len(list)}

AcceptedSos == call.op = "sos" /\ ret.status = 200

\* C1: the nearby-user list of an accepted alert, as broadcast to the
\* dashboards and as returned in the response, never contains the sender.
C1_NearbyNeverContainsSender ==
    AcceptedSos =>
        /\ call.username \notin Usernames(ret.list)
        /\ call.username \notin Usernames(ret.payload)

\* the entries the contract of findNearby selects: identity other than the
\* excluded one and distance from the centre at most the radius
SelectedNames(m, lat, lng, radius, excluded) ==
    {m[i].username : i \in
        {j \in 1..Len(m) :
            /\ m[j].username # excluded
            /\ LET d == calculateDistance(lat, lng, m[j].latitude, m[j].longitude)
               IN  d.t = "number" /\ d.n <= radius.n}}

FiniteCenterQuery ==
    /\ call.op = "findNearbyUsers"
    /\ parseFloat(call.latitude).t = "number"
    /\ parseFloat(call.longitude).t = "number"

\* C2: for a centre with finite coordinates, a radius r >= 0 and an optional
\* excluded identity X, findNearby returns exactly the stored entries with
\* identity other than X and distance <= r (the boundary included), each once.
C2_FindNearbyExactSet ==
    FiniteCenterQuery =>
        /\ Usernames(ret.list) =
               SelectedNames(users, parseFloat(call.latitude),
                             parseFloat(call.longitude), call.radius, call.exclude)
        /\ Len(ret.list) = Cardinality(Usernames(ret.list))

\* a query whose excluded identity is stored within the radius, with one result
\* exactly at the radius and one stored entry beyond it
C2_Witness ==
    /\ FiniteCenterQuery
    /\ call.exclude \in SelectedNames(users, parseFloat(call.latitude),
                                      parseFloat(call.longitude), call.radius, "")
    /\ \E i \in 1..Len(ret.list) :
           ret.list[i].distance.n = call.radius.n /\ call.radius.n > 0
    /\ \E j \in 1..Len(users) :
           /\ users[j].username # call.exclude
           /\ users[j].username \notin Usernames(ret.list)

\* C3: the sequence findNearby returns is in non-decreasing order of distance
\* from the query centre.
C3_ResultSortedByDistance ==
    call.op = "findNearbyUsers" =>
        \A i \in 1..(Len(ret.list) - 1) :
            ret.list[i].distance.n <= ret.list[i + 1].distance.n

\* a result of three entries at three distances, where an entry inserted later
\* comes out before one inserted earlier
C3_Witness ==
    /\ call.op = "findNearbyUsers"
    /\ Len(ret.list) = 3
    /\ ret.list[1].distance.n < ret.list[2].distance.n
    /\ ret.list[2].distance.n < ret.list[3].distance.n
    /\ \E i \in 1..2 :
           IndexOf(users, ret.list[i].username) > IndexOf(users, ret.list[i + 1].username)

\* C4: after an accepted alert, get(sender) returns an entry at the submitted
\* latitude and longitude.
C4_AcceptedAlertStoresSender ==
    AcceptedSos =>
        /\ getUser(users, call.username) # <<>>
        /\ getUser(users, call.username)[1].latitude = parseFloat(call.latitude)
        /\ getUser(users, call.username)[1].longitude = parseFloat(call.longitude)

SuccessfulAddUser == call.op = "addUser" /\ ret.ok

\* C5: right after a successful upsert, get(identity) returns the latitude and
\* longitude just written and, when no timestamp was passed, a timestamp not
\* earlier than the call time; the directory holds one entry per identity,
\* whatever was upserted for it before.
C5_UpsertThenGet ==
    /\ \A i, j \in 1..Len(users) : users[i].username = users[j].username => i = j
    /\ SuccessfulAddUser =>
           /\ getUser(users, call.username) # <<>>
           /\ LET e == getUser(users, call.username)[1]
              IN  /\ e.latitude = parseFloat(call.latitude)
                  /\ e.longitude = parseFloat(call.longitude)
                  /\ call.lastSeen = Undefined =>
                         /\ DateOf(e.lastSeen).t = "number"
                         /\ DateOf(e.lastSeen).n >= call.at

\* a successful upsert, without a timestamp and later than the first instant, of
\* an identity that already had an entry (the directory did not grow)
C5_Witness ==
    /\ SuccessfulAddUser
    /\ call.lastSeen = Undefined
    /\ call.at > 0
    /\ ret.count = Len(users)
    /\ parseFloat(call.latitude).t = "number"

\* the age test as the contract states it: now - lastSeen strictly greater
\* than maxAge (an entry whose lastSeen is no instant has no such age)
OlderThan(e, maxAge, clock) ==
    /\ DateOf(e.lastSeen).t = "number"
    /\ clock - DateOf(e.lastSeen).n > maxAge.n

\* C6: evictOlderThan(maxAge) removes exactly the entries whose age is strictly
\* greater than maxAge, returns how many it removed and leaves every other
\* entry present and unmodified in its place; a second call at the same instant
\* removes nothing and returns 0.  (ret.list is the directory before the call.)
C6_EvictExactlyOlder ==
    call.op = "cleanupOldUsers" =>
        /\ users = SelectSeq(ret.list, LAMBDA e : ~OlderThan(e, call.maxAge, call.at))
        /\ ret.count = Cardinality({i \in 1..Len(ret.list) :
                                       OlderThan(ret.list[i], call.maxAge, call.at)})
        /\ cleanupOldUsers(users, call.maxAge, now).removedCount = 0
        /\ cleanupOldUsers(users, call.maxAge, now).users = users

\* a sweep that removed an entry and kept one whose age equals maxAge
C6_Witness ==
    /\ call.op = "cleanupOldUsers"
    /\ ret.count > 0
    /\ \E i \in 1..Len(users) :
           /\ DateOf(users[i].lastSeen).t = "number"
           /\ call.at - DateOf(users[i].lastSeen).n = call.maxAge.n

\* C9: upsert returns rejected whenever latitude or longitude is non-numeric
\* after coercion.
C9_NonNumericUpsertRejected ==
    (/\ call.op = "addUser"
     /\ \/ isNaN(parseFloat(call.latitude))
        \/ isNaN(parseFloat(call.longitude)))
    => ~ret.ok

\* C10: every stored entry has a finite latitude in [-90, 90] and a finite
\* longitude in [-180, 180].
C10_StoredCoordinatesInRange ==
    \A i \in 1..Len(users) :
        /\ users[i].latitude.t = "number"
        /\ users[i].longitude.t = "number"
        /\ users[i].latitude.n >= -90 * 10000 /\ users[i].latitude.n <= 90 * 10000
        /\ users[i].longitude.n >= -180 * 10000 /\ users[i].longitude.n <= 180 * 10000

RejectedAddUser == call.op = "addUser" /\ ~ret.ok

\* C11: whenever upsert returns rejected (identity empty or missing, latitude
\* or longitude missing), the directory is exactly as it was before the call:
\* no entry added, removed or modified, and count() unchanged.
C11_RejectedUpsertLeavesDirectory ==
    [][(call'.op = "addUser" /\ ~ret'.ok) =>
           /\ users' = users
           /\ getUserCount(users') = getUserCount(users)]_vars

\* a rejected upsert (latitude missing) for an identity that has an entry
C11_Witness ==
    /\ RejectedAddUser
    /\ getUser(users, call.username) # <<>>
    /\ ~Truthy(call.latitude)
    /\ Truthy(call.longitude)

RECURSIVE NamesOf(_)
NamesOf(list) ==
    IF list = <<>> THEN <<>> ELSE <<Head(list).username>> \o NamesOf(Tail(list))

\* the query findNearby(0, 0, 200, exclude = A) made once A at (0, 0), B at
\* (0, 0.001) and C at (10, 10) have been upserted, and nothing else
ScenarioQuery ==
    /\ call.op = "findNearbyUsers"
    /\ call.latitude = Num(0) /\ call.longitude = Num(0)
    /\ call.radius = ScenarioRadius
    /\ call.exclude = "A"
    /\ upserted = ScenarioPoints

\* C12: starting from a directory populated by upserting A at (0, 0), B at
\* (0, 0.001) and C at (10, 10), findNearby(0, 0, 200, exclude = A) returns
\* exactly the one-element sequence [B].
C12_ScenarioReturnsOnlyB ==
    ScenarioQuery => NamesOf(ret.list) = <<"B">>

\* what validation has to reject: no identity, a missing latitude or
\* longitude, coordinates that do not parse or lie outside [-90, 90] x [-180, 180]
SosShouldReject(c) ==
    \/ c.username = ""
    \/ c.latitude = Undefined \/ c.longitude = Undefined
    \/ parseFloat(c.latitude).t # "number" \/ parseFloat(c.longitude).t # "number"
    \/ parseFloat(c.latitude).n \notin (-90 * 10000)..(90 * 10000)
    \/ parseFloat(c.longitude).n \notin (-180 * 10000)..(180 * 10000)

\* C18: an alert submission that validation rejects gets a client-error
\* response, leaves the directory exactly as it was and causes no 'sos-alert'
\* event on any dashboard socket.
C18_RejectedAlertHasNoEffect ==
    [][(call'.op = "sos" /\ SosShouldReject(call')) =>
           /\ ret'.status \in 400..499
           /\ users' = users
           /\ \A s \in SocketIds : emits'[s] = 0]_vars

\* an alert with an out-of-range latitude, sent by a user the directory holds
\* while a dashboard is connected, was answered 400
C18_Witness ==
    /\ call.op = "sos"
    /\ ret.status = 400
    /\ parseFloat(call.latitude).t = "number"
    /\ parseFloat(call.latitude).n > 90 * 10000
    /\ getUser(users, call.username) # <<>>
    /\ sockets # {}

\* C19: for every accepted alert, each dashboard socket connected when the
\* alert is processed is sent exactly one 'sos-alert' event, a socket that is
\* not connected (never connected, or disconnected before) is sent none, and
\* dashboardNotified is true exactly when at least one socket was connected.
C19_BroadcastReachesConnectedSockets ==
    AcceptedSos =>
        /\ \A s \in sockets : emits[s] = 1
        /\ \A s \in SocketIds \ sockets : emits[s] = 0
        /\ ret.notified <=> sockets # {}

\* an accepted alert processed while one dashboard was connected and the other
\* was not
C19_Witness ==
    /\ AcceptedSos
    /\ Cardinality(sockets) = 1
    /\ ret.notified

----------------------------------------------------------------------------
(* Properties of the crime dataset                                          *)

ReloadInFlight == \E ld \in loads : ld.reload

\* C7: while a reload is in flight, getAll() keeps returning the complete
\* prior collection (the collection the module holds until the reload ends).
C7_ReloadKeepsPriorCollectionVisible ==
    (seen.op = "getCrimeData" /\ ReloadInFlight) => seen.result = crimeData

\* every row of a source handled by the 'data' handler of load g, from an
\* empty `results`
RECURSIVE ParseFrom(_, _, _)
ParseFrom(rows, results, g) ==
    IF rows = <<>> THEN results
    ELSE ParseFrom(Tail(rows),
                   onData([gen |-> g, rows |-> rows, results |-> results,
                           reload |-> FALSE], <<>>).results,
                   g)

InFlight == {ld.gen : ld \in loads}

\* the complete collections of the loads that are no longer reading
CompleteCollections ==
    {ParseFrom(sources[g], <<>>, g) : g \in (1..Len(sources)) \ InFlight}

\* a collection is empty or the whole result of one load that has finished reading
IsEmptyOrComplete(records) ==
    records = <<>> \/ records \in CompleteCollections

\* C8: no reader (getAll, filterByType, filterByArea, stats) ever observes
\* records of a load that is still reading, a part of a load's records, or
\* records of two loads together: what a reader returns is computed from the
\* empty collection or from the complete collection of one finished load.
C8_ReadersNeverSeePartialLoad ==
    /\ IsEmptyOrComplete(crimeData)
    /\ seen.op = "getCrimeData" => IsEmptyOrComplete(seen.result)
    /\ seen.op = "getCrimesByType" =>
           \E c \in CompleteCollections \cup {<<>>} :
               /\ seen.result = getCrimesByType(c, seen.arg)
               /\ \A i \in 1..Len(seen.result) : seen.result[i].load \notin InFlight
    /\ seen.op = "getCrimesInArea" =>
           \E c \in CompleteCollections \cup {<<>>} :
               /\ seen.result = getCrimesInArea(c, seen.arg[1], seen.arg[2], seen.arg[3])
               /\ \A i \in 1..Len(seen.result) : seen.result[i].load \notin InFlight
    /\ seen.op = "getCrimeStats" =>
           \E c \in CompleteCollections \cup {<<>>} :
               /\ seen.stats[1].total = Len(c)
               /\ seen.stats[1].byType = byTypeOf(c)
               /\ c = crimeData

\* a reader returns records of the previous collection while a later load has
\* already read some but not all of its rows into `results`
C8_Witness ==
    /\ seen.op \in {"getCrimesByType", "getCrimesInArea"}
    /\ seen.result # <<>>
    /\ \E ld \in loads :
           /\ ld.results # <<>>
           /\ ld.rows # <<>>
           /\ seen.result[1].load < ld.gen

\* a source row whose latitude and longitude both parse as numbers, the
\* latitude within [-90, 90] and the longitude within [-180, 180]
SourceRowValid(row) ==
    /\ parseFloat(row.latitude).t = "number"
    /\ parseFloat(row.longitude).t = "number"
    /\ parseFloat(row.latitude).n \in (-90 * 10000)..(90 * 10000)
    /\ parseFloat(row.longitude).n \in (-180 * 10000)..(180 * 10000)

RECURSIVE RawRows(_)
RawRows(records) ==
    IF records = <<>> THEN <<>> ELSE <<Head(records).raw>> \o RawRows(Tail(records))

\* a load has just completed: the collection is what it resolved with
LoadResolved == seen.op = "resolve"

\* C13: load stores a record for a source row if and only if the row's
\* latitude and longitude parse as numbers and lie within [-90, 90] and
\* [-180, 180]; every record of the collection has in-range coordinates, and
\* after a load the records are the valid rows of its source, one each, in
\* their order.
C13_LoadKeepsExactlyValidRows ==
    /\ \A i \in 1..Len(crimeData) :
           /\ crimeData[i].latitude.t = "number"
           /\ crimeData[i].longitude.t = "number"
           /\ crimeData[i].latitude.n \in (-90 * 10000)..(90 * 10000)
           /\ crimeData[i].longitude.n \in (-180 * 10000)..(180 * 10000)
    /\ LoadResolved =>
           /\ RawRows(crimeData) = SelectSeq(sources[seen.gen], SourceRowValid)
           /\ Len(crimeData) =
                  Cardinality({i \in 1..Len(sources[seen.gen]) :
                                  SourceRowValid(sources[seen.gen][i])})
           /\ \A i \in 1..Len(crimeData) :
                  /\ crimeData[i].latitude = parseFloat(crimeData[i].raw.latitude)
                  /\ crimeData[i].longitude = parseFloat(crimeData[i].raw.longitude)

\* a completed load that stored two rows and dropped an out-of-range row that
\* lay between them
C13_Witness ==
    /\ LoadResolved
    /\ Len(crimeData) = 2
    /\ Len(sources[seen.gen]) = 3
    /\ ~SourceRowValid(sources[seen.gen][2])
    /\ parseFloat(sources[seen.gen][2].latitude).t = "number"

\* a load that found no source has just completed (a source that exists has
\* at least one row)
MissingSourceLoad == LoadResolved /\ sources[seen.gen] = <<>>

\* C14: when the incident source is missing at load time, load completes
\* successfully with the empty sequence, and right afterwards the collection is
\* empty and the loaded flag is true, whatever the collection held before.
C14_MissingSourceGivesEmptyLoaded ==
    MissingSourceLoad =>
        /\ seen.result = <<>>
        /\ crimeData = <<>>
        /\ isDataLoaded

\* a load without a source made while the collection held records
C14_Witness ==
    /\ MissingSourceLoad
    /\ seen.before # <<>>

\* a load has just been ended by a failure of its stream after it had read
\* rows into `results`
FailedAfterRows == seen.op \in {"reject", "uncaught"} /\ seen.read # <<>>

\* C15: when a load or reload hits a stream-level read failure after some rows
\* were read, the operation reports failure to its caller, and afterwards the
\* collection is empty and the loaded flag is true.
C15_ReadFailureRejectsAndEmpties ==
    FailedAfterRows =>
        /\ seen.op = "reject"
        /\ crimeData = <<>>
        /\ isDataLoaded

\* every load called so far is still reading
NoLoadCompleted == \A g \in 1..Len(sources) : g \in InFlight

\* C16: getAll() returns the empty sequence in every state in which no load
\* has completed yet (before load is called and while the first loads are in
\* flight), and never returns a record of a load that has not finished.
C16_GetAllEmptyBeforeFirstLoad ==
    seen.op = "getCrimeData" =>
        /\ NoLoadCompleted => seen.result = <<>>
        /\ \A i \in 1..Len(seen.result) : seen.result[i].load \notin InFlight

\* getAll() called while the first load has already pushed a row to `results`
C16_Witness ==
    /\ seen.op = "getCrimeData"
    /\ NoLoadCompleted
    /\ \E ld \in loads : ld.results # <<>> /\ ld.gen = 1

\* a request to GET /api/crime-zones with a category substring and a valid
\* area, answered from a loaded, non-empty collection
CombinedQuery ==
    /\ seen.op = "crime-zones"
    /\ Truthy(seen.arg[1].type)
    /\ parseFloat(seen.arg[1].lat).t = "number"
    /\ parseFloat(seen.arg[1].lng).t = "number"
    /\ parseFloat(seen.arg[1].radius).t = "number"
    /\ isDataLoaded

\* the record matches the category substring, whatever the case of either
MatchesType(crime, sub) == includes(toLowerCase(crime.type), toLowerCase(sub))

\* the record lies within `radius` metres of (lat, lng)
MatchesArea(crime, lat, lng, radius) ==
    LET d == calculateDistance(lat, lng, crime.latitude, crime.longitude)
    IN  d.t = "number" /\ d.n <= radius

\* C17: for every loaded collection and every query with both a category
\* substring and a valid area, the result is the records that satisfy both the
\* case-insensitive substring match and distance <= radius, and filtering by
\* type then by area gives the same records as filtering by area then by type.
C17_CombinedQueryIsConjunction ==
    CombinedQuery =>
        LET q      == seen.arg[1]
            lat    == parseFloat(q.lat)
            lng    == parseFloat(q.lng)
            radius == parseFloat(q.radius).n \div 10000
            both(crime) == MatchesType(crime, q.type.s)
                               /\ MatchesArea(crime, lat, lng, radius)
        IN  /\ seen.result = SelectSeq(crimeData, both)
            /\ getCrimesInArea(getCrimesByType(crimeData, q.type.s),
                               lat, lng, Num(radius))
                   = getCrimesByType(getCrimesInArea(crimeData, lat, lng, Num(radius)),
                                     q.type.s)
            /\ seen.result = getCrimesInArea(getCrimesByType(crimeData, q.type.s),
                                             lat, lng, Num(radius))

\* a combined query over a collection in which one record matches only the
\* type, in another case than the substring's, and another only the area
C17_Witness ==
    /\ CombinedQuery
    /\ LET q      == seen.arg[1]
           lat    == parseFloat(q.lat)
           lng    == parseFloat(q.lng)
           radius == parseFloat(q.radius).n \div 10000
       IN  /\ \E i \in 1..Len(crimeData) :
                  /\ MatchesType(crimeData[i], q.type.s)
                  /\ ~includes(crimeData[i].type, q.type.s)
                  /\ ~MatchesArea(crimeData[i], lat, lng, radius)
           /\ \E i \in 1..Len(crimeData) :
                  /\ ~MatchesType(crimeData[i], q.type.s)
                  /\ MatchesArea(crimeData[i], lat, lng, radius)

----------------------------------------------------------------------------
(* Properties of the distance function                                      *)

\* a == b of two numbers: false when either is NaN
NumbersEqual(a, b) == ~isNaN(a) /\ ~isNaN(b) /\ a.n = b.n

\* C20: distanceMeters is symmetric, distanceMeters(A, B) == distanceMeters(B, A)
\* for all valid coordinate pairs, and distanceMeters(P, P) == 0 for every
\* valid point P.
C20_DistanceSymmetricAndZeroOnSelf ==
    seen.op = "calculateDistance" =>
        /\ NumbersEqual(seen.result[1],
                        calculateDistance(seen.arg[3], seen.arg[4],
                                          seen.arg[1], seen.arg[2]))
        /\ (seen.arg[1] = seen.arg[3] /\ seen.arg[2] = seen.arg[4]) =>
               NumbersEqual(seen.result[1], Num(0))

----------------------------------------------------------------------------
(* Coordinates on the equator and the prime meridian                        *)

\* the number 0 given as a coordinate
IsNumberZero(v) == v = Num(0)
\* a coordinate whose value is 0: the number 0 or a string that parses to 0
IsZeroValued(v) == parseFloat(v) = Num(0)

\* what the statement promises of a step made with such a coordinate
ZeroTreatedAsMissing ==
    /\ users' = users
    /\ call'.op = "addUser" => ret'.ok = FALSE
    /\ call'.op = "sos" =>
           /\ ret'.status = 400
           /\ ret'.error = "Missing required fields"
           /\ ret'.list = <<>>
           /\ emits' = NoEmits

\* C21 as stated: an addUser call or an alert whose latitude or longitude has
\* the value 0 is answered as missing (addUser returns false, the route
\* answers 400 "Missing required fields" without query or broadcast) and
\* leaves the directory as it was.
C21_ZeroCoordinateIsMissing ==
    [][ (/\ call'.op \in {"addUser", "sos"}
         /\ IsZeroValued(call'.latitude) \/ IsZeroValued(call'.longitude))
        => ZeroTreatedAsMissing ]_vars

\* C21 amended: an addUser call or an alert whose latitude or longitude is the
\* number 0 is answered as missing and leaves the directory as it was.  (The
\* string "0" is truthy: both handlers take it and parse it to 0.)
C21_NumberZeroIsMissing ==
    [][ (/\ call'.op \in {"addUser", "sos"}
         /\ IsNumberZero(call'.latitude) \/ IsNumberZero(call'.longitude))
        => ZeroTreatedAsMissing ]_vars

\* an alert on the prime meridian (longitude the number 0) from a sender with a
\* directory entry, while a dashboard is connected, was answered as missing
C21_Witness ==
    /\ call.op = "sos"
    /\ call.username = "Sarah_M"
    /\ call.latitude = LatSarah
    /\ call.longitude = Num(0)
    /\ sockets # {}
    /\ ret.status = 400
    /\ ret.error = "Missing required fields"
    /\ \E i \in 1..Len(users) : users[i].username = "user123"

----------------------------------------------------------------------------
(* Identifiers and category labels of the records                           *)

\* the identifiers of `records` are 1, 2, ... in order (the n of `crime_n`)
NumberedInOrder(records) == \A i \in 1..Len(records) : records[i].id = i

\* C22: the identifiers of the records of the collection, and of the records
\* a load has accepted so far, are the consecutive numbers 1..n in source
\* order: no gap where a row was dropped, no identifier used twice.
C22_IdentifiersAreConsecutive ==
    /\ NumberedInOrder(crimeData)
    /\ \A ld \in loads : NumberedInOrder(ld.results)

\* a completed load whose second record comes from the third row of the
\* source, the second row having been dropped
C22_Witness ==
    /\ seen.op = "resolve"
    /\ Len(crimeData) = 2
    /\ crimeData[2].raw = sources[seen.gen][3]
    /\ crimeData[2].id = 2

\* the type field of a row is absent, empty or only whitespace
IsBlankType(v) == ~Truthy(v) \/ trim(v.s) = <<>>

\* C23: every record of the collection has a non-empty category label: a row
\* whose type is absent, empty or only whitespace is stored as "Unknown", any
\* other row with its trimmed type.
C23_CategoryLabelNeverEmpty ==
    \A i \in 1..Len(crimeData) :
        /\ crimeData[i].type # <<>>
        /\ crimeData[i].type = IF IsBlankType(crimeData[i].raw.type)
                               THEN Unknown
                               ELSE trim(crimeData[i].raw.type.s)

----------------------------------------------------------------------------
(* The recurring sweep                                                      *)

InDirectory(name) == \E i \in 1..Len(users) : users[i].username = name
\* addUser has just stored an entry for `name`
JustUpserted(name) ==
    call.op = "addUser" /\ call.username = name /\ ret.ok

\* C24: with the interval timer running and time advancing, an entry of the
\* directory (a seeded one or one stored by addUser) is eventually removed
\* unless it is upserted again.
C24_EntriesEventuallyEvicted ==
    \A name \in KnownNames :
        InDirectory(name) ~> (~InDirectory(name) \/ JustUpserted(name))

\* an entry of the directory is gone after the step
EntryLeaves == \E name \in KnownNames : InDirectory(name) /\ ~InDirectory(name)'

\* C25: the module starts no timer of its own: an entry leaves the directory
\* only in a removeUser or cleanupOldUsers call made by a user of the module.
C25_EntriesLeaveOnlyByExplicitCall ==
    [][ EntryLeaves => call'.op \in {"removeUser", "cleanupOldUsers"} ]_vars

----------------------------------------------------------------------------
(* Area parameters that do not parse                                        *)

\* lat, lng and radius are all given and one of them is no number
AreaSuppliedInvalid(query) ==
    /\ Truthy(query.lat) /\ Truthy(query.lng) /\ Truthy(query.radius)
    /\ \/ isNaN(parseFloat(query.lat))
       \/ isNaN(parseFloat(query.lng))
       \/ isNaN(parseFloat(query.radius))

\* C26: a crime query whose lat, lng and radius are given but do not all parse
\* is answered with a client error (4xx), not with a success response.
C26_InvalidAreaIsClientError ==
    (seen.op = "crime-zones" /\ AreaSuppliedInvalid(seen.arg[1]))
        => (seen.status >= 400 /\ seen.status < 500)

----------------------------------------------------------------------------
(* Start of the server                                                      *)

\* a request has been handled by a route
RequestHandled == call.op \in {"sos", "sos/test"} \/ seen.op = "crime-zones"

\* C27: the server listens only once the initial load has resolved (the
\* collection is then the complete result of that load and no stream is open),
\* no alert or crime query is handled before it listens, and after a rejected
\* initial load the server never listens: the only step left is the exit.
C27_ListensOnlyAfterInitialLoad ==
    /\ server = "listening" =>
           /\ Len(sources) = 1
           /\ loads = {}
           /\ isDataLoaded
           /\ crimeData = ParseFrom(sources[1], <<>>, 1)
    /\ RequestHandled => server = "listening"
    /\ loads # {} => ~RequestHandled
    /\ initialLoadRejected => server \in {"loading", "exited"}
    /\ (initialLoadRejected /\ server = "loading") => ENABLED ServerExit
    /\ server = "exited" => initialLoadRejected /\ ~RequestHandled

\* the server listens after a load that stored two rows and has answered an
\* alert
C27_Witness ==
    /\ server = "listening"
    /\ Len(crimeData) = 2
    /\ call.op = "sos"
    /\ ret.status = 200

----------------------------------------------------------------------------
(* Statistics against the collection that getCrimeData returns              *)

\* the sum of the counts of byType over the types `keys`
RECURSIVE SumCounts(_, _)
SumCounts(byType, keys) ==
    IF keys = {} THEN 0
    ELSE LET k == CHOOSE x \in keys : TRUE
         IN  byType[k] + SumCounts(byType, keys \ {k})

\* C28: what getCrimeStats() returns agrees with what getCrimeData() returns
\* in the same state: total is the number of records of that collection, the
\* counts per type sum to total, and loaded is the flag; also during a reload.
C28_StatsAgreeWithGetAll ==
    seen.op = "getCrimeStats" =>
        LET stats == seen.stats[1]
        IN  /\ stats.total = Len(getCrimeData(crimeData, isDataLoaded))
            /\ SumCounts(stats.byType, DOMAIN stats.byType) = stats.total
            /\ stats.loaded = isDataLoaded

----------------------------------------------------------------------------
(* The test route                                                           *)

\* C29: a GET /api/sos/test request is handled as an alert of TestUser at
\* (40.7128, -74.0060): it reaches the handler of POST /sos and is answered
\* with the alert confirmation (200, success), TestUser being stored at that
\* position.
C29_TestRouteRaisesAlert ==
    call.op = "sos/test" =>
        /\ ret.status = 200
        /\ ret.ok
        /\ \E i \in 1..Len(users) :
               /\ users[i].username = "TestUser"
               /\ users[i].latitude = Num(407128)
               /\ users[i].longitude = Num(-740060)

----------------------------------------------------------------------------
(* Loads that overlap                                                       *)

\* the rows of its source that load ld has read so far
RowsRead(ld) ==
    SubSeq(sources[ld.gen], 1, Len(sources[ld.gen]) - Len(ld.rows))

\* C30: every load in flight holds in its own `results` exactly the accepted
\* rows it has read of its own source; when a load ends the collection is the
\* complete result of that load and the flag is true, whatever another load
\* did before (so after two overlapping loads the one that finished last
\* decides, also when the first one failed); when a load fails the collection
\* is empty and the flag true; the collection never holds rows of two loads.
C30_LastFinishedLoadDecides ==
    /\ \A ld \in loads : ld.results = ParseFrom(RowsRead(ld), <<>>, ld.gen)
    /\ seen.op = "resolve" =>
           /\ crimeData = ParseFrom(sources[seen.gen], <<>>, seen.gen)
           /\ isDataLoaded
    /\ seen.op = "reject" => (crimeData = <<>> /\ isDataLoaded)
    /\ \A i, j \in 1..Len(crimeData) : crimeData[i].load = crimeData[j].load

\* two loads of different files were both reading; the second has finished
\* and now the first ends, the last of the two: its rows are the collection
C30_Witness ==
    /\ seen.op = "resolve"
    /\ seen.gen = 1
    /\ Len(sources) = 2
    /\ loads = {}
    /\ sources[2] # <<>>
    /\ sources[1] # sources[2]
    /\ crimeData # <<>>
    /\ crimeData[1].load = 1
====
